---- MODULE Spec2Model ----
(***************************************************************************)
(* Model of WhatsAppAutomation.send_bulk_messages and of the two methods   *)
(* it drives, search_contact and send_message                              *)
(* (src/whatsapp_bulk_automation.py).                                      *)
(*                                                                         *)
(* Text is a sequence of one-character strings, so that str.strip and      *)
(* str.lower are computed and not assumed.  A cell of the data frame is a  *)
(* record [na, s]: na is pandas' NaN, s the text otherwise.                *)
(* Time is in whole seconds.  A WebDriverWait that succeeds is taken to    *)
(* succeed at once; one that fails takes the whole page_load_timeout.      *)
(***************************************************************************)
EXTENDS Integers, Sequences, FiniteSets, TLC

VARIABLES
    entry,          \* who runs: main(), or a direct call of the method
    source,         \* what the contacts file is: missing, unsupported, ...
    raw,            \* the rows of the file, as text fields
    dry_run,        \* argument of send_bulk_messages
    delay_range,    \* argument of send_bulk_messages
    pc,             \* where the call of send_bulk_messages stands
    status,         \* how the call ended
    df,             \* the cleaned data frame
    pos,            \* position of the loop in df (1-based)
    results,        \* the results dictionary
    report,         \* <<results>> once returned to the caller, else <<>>
    session_stats,  \* self.session_stats
    now,            \* seconds since the call
    sendTimes,      \* the times at which Enter was pressed
    trace,          \* what happened to which row, in order
    interruptedAt,  \* pc at which Ctrl+C arrived
    validations,    \* what each call of validate_contacts_file returned
    confirm         \* the local confirm of send_bulk_messages

vars == <<entry, source, raw, dry_run, delay_range, pc, status, df, pos,
          results, report, session_stats, now, sendTimes, trace, interruptedAt,
          validations, confirm>>

----------------------------------------------------------------------------
(* Bounds of the model *)

MaxRows == 2
MaxRateRows == 11
MaxRateDropped == 4
MaxCalls == 2

----------------------------------------------------------------------------
(* Config.DELAYS, Config.RATE_LIMITS and the literals of the code *)

page_load_timeout == 20
search_delay == 2
message_send_delay == 1
verify_delay == 1
max_messages_per_minute == 10
max_messages_per_hour == 50
max_messages_per_day == 200
cooldown_period_minutes == 5

DefaultDelayRange == <<3, 8>>
MainDelayRange == <<5, 10>>
DelayRanges == {DefaultDelayRange, MainDelayRange}

----------------------------------------------------------------------------
(* Text *)

EmptyText == <<>>
BlankText == <<" ">>
NanLikeText == <<"N", "A", "N">>
ContactA == <<"A">>
ContactB == <<"B">>
MessageHi == <<"h", "i">>
Yes == <<"y", "e", "s">>

RECURSIVE lstrip(_)
lstrip(s) ==
    IF s = <<>> THEN s
    ELSE IF Head(s) = " " THEN lstrip(Tail(s)) ELSE s

RECURSIVE rstrip(_)
rstrip(s) ==
    IF s = <<>> THEN s
    ELSE IF s[Len(s)] = " " THEN rstrip(SubSeq(s, 1, Len(s) - 1)) ELSE s

strip(s) == rstrip(lstrip(s))

LowerChar(c) ==
    CASE c = "A" -> "a"
      [] c = "B" -> "b"
      [] c = "E" -> "e"
      [] c = "N" -> "n"
      [] c = "S" -> "s"
      [] c = "Y" -> "y"
      [] OTHER -> c

lower(s) == [i \in 1..Len(s) |-> LowerChar(s[i])]

Nan == <<"n", "a", "n">>

----------------------------------------------------------------------------
(* The file and the data frame *)

ContactFields == {EmptyText, BlankText, NanLikeText, ContactA}
MessageFields == {EmptyText, BlankText, NanLikeText, MessageHi}
RawRows == [contact : ContactFields, message : MessageFields]

Scenario ==
    << [contact |-> ContactA, message |-> MessageHi],
       [contact |-> EmptyText, message |-> MessageHi],
       [contact |-> ContactB, message |-> EmptyText] >>

SeqsUpTo(S, n) == UNION {[1..k -> S] : k \in 0..n}

Files == SeqsUpTo(RawRows, MaxRows) \cup {Scenario}

(* pd.read_csv: a field that is one of the default NA strings becomes NaN *)
NaStrings == {EmptyText, Nan, <<"N", "a", "N">>, <<"N", "A">>}

read_cell(field) ==
    IF field \in NaStrings THEN [na |-> TRUE, s |-> Nan]
    ELSE [na |-> FALSE, s |-> field]

(* the frame keeps the row labels 0, 1, 2, ... of the file *)
read_csv(rows) ==
    [i \in 1..Len(rows) |->
        [index |-> i - 1,
         contact |-> read_cell(rows[i].contact),
         message |-> read_cell(rows[i].message)]]

NotNa(row) == ~row.contact.na /\ ~row.message.na

dropna_KeepsAll(frame) == frame

dropna(frame) == SelectSeq(frame, NotNa)

str_strip(frame) ==
    [i \in 1..Len(frame) |->
        [index |-> frame[i].index,
         contact |-> strip(frame[i].contact.s),
         message |-> strip(frame[i].message.s)]]

Clean(rows) == str_strip(dropna(read_csv(rows)))

(* the blank check at the head of the loop body *)
IsBlankRow_NoNanCheck(contact, message) ==
    \/ contact = <<>>
    \/ message = <<>>

IsBlankRow_ContactOnly(contact, message) ==
    \/ contact = <<>>
    \/ lower(contact) = Nan

IsBlankRow(contact, message) ==
    \/ contact = <<>>
    \/ message = <<>>
    \/ lower(contact) = Nan
    \/ lower(message) = Nan

----------------------------------------------------------------------------
(* State after construction *)

NewResults ==
    [total |-> 0, successful |-> 0, failed |-> 0, skipped |-> 0,
     failed_contacts |-> <<>>, skipped_contacts |-> <<>>]

NewSessionStats ==
    [messages_sent |-> 0, messages_failed |-> 0, contacts_processed |-> 0]

(* confirm before the prompt of send_bulk_messages is reached *)
Unasked == <<"unasked">>

InitRun ==
    /\ pc = "idle"
    /\ status = "none"
    /\ df = <<>>
    /\ pos = 0
    /\ results = NewResults
    /\ report = <<>>
    /\ session_stats = NewSessionStats
    /\ now = 0
    /\ sendTimes = <<>>
    /\ trace = <<>>
    /\ interruptedAt = "none"
    /\ validations = <<>>
    /\ confirm = Unasked

(* a direct call names any file and passes any arguments; main() reads
   contacts.csv and passes delay_range = (5, 10) and no dry_run *)
Init ==
    /\ entry \in {"call", "main"}
    /\ source \in (IF entry = "main" THEN {"missing", "nocolumn", "ok"}
                   ELSE {"missing", "unsupported", "nocolumn", "ok"})
    /\ raw \in (IF source = "missing" THEN {<<>>} ELSE Files)
    /\ dry_run \in (IF entry = "main" THEN {FALSE} ELSE BOOLEAN)
    /\ delay_range \in (IF entry = "main" THEN {MainDelayRange}
                        ELSE {DefaultDelayRange})
    /\ InitRun

----------------------------------------------------------------------------
(* Helpers of the run *)

inputs == <<entry, source, raw, dry_run, delay_range>>

(* what the loop and the two methods it drives never change *)
given == <<inputs, validations, confirm>>

Ev(e, r) == [ev |-> e, row |-> r]

(* for index, row in df.iterrows(): the rows in the order of the frame *)
Row_Reversed == df[Len(df) + 1 - pos]

Row == df[pos]
Contact == strip(Row.contact)
Message == strip(Row.message)

Running == {"confirm", "loop", "search_box", "strategy1", "strategy2",
            "verify", "send_box", "send_enter", "after"}

ChannelResults == {"ok", "timeout", "intercepted", "error"}

(* return results *)
Return(st, res) ==
    /\ pc' = "done"
    /\ status' = st
    /\ report' = <<res>>

(* results['skipped'] += 1; results['skipped_contacts'].append(...) *)
RecordSkipped_Forgotten ==
    [results EXCEPT !.skipped_contacts = Append(@, Row.index + 1)]

RecordSkipped ==
    [results EXCEPT !.skipped = @ + 1,
                    !.skipped_contacts = Append(@, Row.index + 1)]

(* results['failed'] += 1; results['failed_contacts'].append(contact) *)
RecordFailed_Decrements ==
    [results EXCEPT !.failed = @ - 1,
                    !.failed_contacts = Append(@, Contact)]

RecordFailed_Double ==
    [results EXCEPT !.failed = @ + 2,
                    !.failed_contacts = Append(@, Contact)]

RecordFailed ==
    [results EXCEPT !.failed = @ + 1,
                    !.failed_contacts = Append(@, Contact)]

(* search_contact returned False: the else branch of the loop body *)
SearchFalse_Retries(duration, before) ==
    /\ now' = now + duration
    /\ trace' = Append(trace \o before, Ev("notfound", Row.index))
    /\ pc' = "search_box"
    /\ UNCHANGED <<given, status, report, df, pos, results, session_stats,
                   sendTimes, interruptedAt>>

SearchFalse_Dispatches(duration, before) ==
    /\ now' = now + duration
    /\ trace' = Append(trace \o before, Ev("notfound", Row.index))
    /\ pc' = "send_box"
    /\ UNCHANGED <<given, status, report, df, pos, results, session_stats,
                   sendTimes, interruptedAt>>

SearchFalse(duration, before) ==
    /\ now' = now + duration
    /\ results' = RecordFailed
    /\ trace' = Append(trace \o before, Ev("notfound", Row.index))
    /\ pc' = "after"
    /\ UNCHANGED <<given, status, report, df, pos, session_stats, sendTimes,
                   interruptedAt>>

(* search_contact returned True: send_message is called next *)
SearchTrue(duration, before) ==
    /\ now' = now + duration
    /\ trace' = Append(trace \o before, Ev("found", Row.index))
    /\ pc' = "send_box"
    /\ UNCHANGED <<given, status, report, df, pos, results, session_stats,
                   sendTimes, interruptedAt>>

(* send_message returned False: the inner else branch of the loop body;
   only the generic handler counts messages_failed *)
SendFalse_Retries(duration, countFailed, before) ==
    /\ now' = now + duration
    /\ trace' = trace \o before
    /\ pc' = "send_box"
    /\ UNCHANGED <<given, status, report, df, pos, results, session_stats,
                   sendTimes, interruptedAt>>

SendFalse(duration, countFailed, before) ==
    /\ now' = now + duration
    /\ results' = RecordFailed
    /\ session_stats' =
         IF countFailed
         THEN [session_stats EXCEPT !.messages_failed = @ + 1]
         ELSE session_stats
    /\ trace' = Append(trace \o before, Ev("sendfailed", Row.index))
    /\ pc' = "after"
    /\ UNCHANGED <<given, status, report, df, pos, sendTimes, interruptedAt>>

----------------------------------------------------------------------------
(* validate_contacts_file and the steps of main() before the call *)

IsNa(cell) == cell.na

CountNa(frame, column) ==
    Cardinality({i \in DOMAIN frame : IsNa(frame[i][column])})

(* a column whose cells are all NaN is a float column, and .str raises *)
StrAccessorRaises(frame) ==
    /\ Len(frame) > 0
    /\ \A i \in DOMAIN frame : IsNa(frame[i].message)

(* validation_results: a dictionary made anew by every call *)
NoValidation_Kept ==
    IF validations = <<>>
    THEN [valid |-> FALSE, total_rows |-> 0, valid_rows |-> 0,
          issues |-> <<>>, warnings |-> <<>>]
    ELSE validations[Len(validations)]

NoValidation ==
    [valid |-> FALSE, total_rows |-> 0, valid_rows |-> 0,
     issues |-> <<>>, warnings |-> <<>>]

EmptyWarnings(frame) ==
    (IF CountNa(frame, "contact") > 0
     THEN <<[kind |-> "empty_contacts", n |-> CountNa(frame, "contact")]>>
     ELSE <<>>)
    \o
    (IF CountNa(frame, "message") > 0
     THEN <<[kind |-> "empty_messages", n |-> CountNa(frame, "message")]>>
     ELSE <<>>)

validate_contacts_file(src, rows) ==
    CASE src = "missing" ->
           [NoValidation EXCEPT !.issues = Append(@, "file_not_found")]
      [] src = "unsupported" ->
           (* pd.read_excel raises *)
           [NoValidation EXCEPT !.issues = Append(@, "error_reading_file")]
      [] src = "nocolumn" ->
           [NoValidation EXCEPT
              !.total_rows = Len(rows),
              !.issues = Append(@, "missing_required_column")]
      [] OTHER ->
           LET frame == read_csv(rows)
               checked ==
                 [NoValidation EXCEPT
                    !.total_rows = Len(frame),
                    !.valid_rows = Len(dropna(frame)),
                    !.warnings = @ \o EmptyWarnings(frame)]
           IN  IF StrAccessorRaises(frame)
               THEN [checked EXCEPT
                       !.issues = Append(@, "error_reading_file")]
               ELSE [checked EXCEPT !.valid = checked.valid_rows > 0]

(* main: without contacts.csv a sample file is written and main returns;
   a file that is not valid makes main return; else main asks *)
MainValidate ==
    /\ pc = "idle"
    /\ entry = "main"
    /\ IF source = "missing"
       THEN pc' = "done" /\ status' = "sample_created"
       ELSE IF ~validate_contacts_file(source, raw).valid
       THEN pc' = "done" /\ status' = "rejected"
       ELSE pc' = "main_confirm" /\ status' = status
    /\ validations' =
         IF source = "missing" THEN validations
         ELSE Append(validations, validate_contacts_file(source, raw))
    /\ UNCHANGED <<inputs, confirm, report, df, pos, results, session_stats,
                   now,
                   sendTimes, trace, interruptedAt>>

----------------------------------------------------------------------------
(* send_bulk_messages up to the confirmation prompt *)

(* where the call goes once results['total'] = n is set *)
AfterLoad_IgnoresDryRun(n) ==
    IF n = 0 THEN "empty" ELSE "confirm"

AfterLoad(n) ==
    IF n = 0 THEN "empty"
    ELSE IF dry_run THEN "dry_run"
    ELSE "confirm"

(* the file is missing, has another extension, or lacks a column *)
LoadFails_MissingOnly == source = "missing"

LoadFails == source # "ok"

Load ==
    /\ \/ pc = "idle" /\ entry = "call"
       \/ pc = "call"
    /\ IF LoadFails
       THEN (* FileNotFoundError or ValueError, caught; return results *)
            /\ UNCHANGED <<df, results>>
            /\ Return("error", results)
       ELSE LET counted == [results EXCEPT !.total = Len(Clean(raw))] IN
            /\ df' = Clean(raw)
            /\ results' = counted
            /\ IF AfterLoad(counted.total) = "confirm"
               THEN pc' = "confirm" /\ status' = "running" /\ report' = report
               ELSE Return(AfterLoad(counted.total), counted)
    /\ UNCHANGED <<given, pos, session_stats, now, sendTimes, trace,
                   interruptedAt>>

Answers == {Yes, <<" ", "Y", "E", "S">>, <<"n", "o">>, <<"y">>, EmptyText}

(* confirm != 'yes' is the test of both prompts *)
Accepts_Initial(c) == c # <<>> /\ c[1] = "y"

Accepts(c) == c = Yes

(* main: confirm = input(...).lower().strip(), then the call *)
MainConfirm(answer) ==
    /\ pc = "main_confirm"
    /\ IF ~Accepts(strip(lower(answer)))
       THEN pc' = "done" /\ status' = "main_declined"
       ELSE pc' = "call" /\ status' = status
    /\ UNCHANGED <<given, report, df, pos, results, session_stats, now,
                   sendTimes, trace, interruptedAt>>

(* confirm = input(...).lower().strip() *)
Confirm(answer) ==
    /\ pc = "confirm"
    /\ confirm' = strip(lower(answer))
    /\ IF ~Accepts(confirm')
       THEN Return("declined", results) /\ pos' = pos
       ELSE pc' = "loop" /\ pos' = 1 /\ UNCHANGED <<status, report>>
    /\ UNCHANGED <<inputs, validations, df, results, session_stats, now,
                   sendTimes, trace,
                   interruptedAt>>

----------------------------------------------------------------------------
(* The loop over df.iterrows() *)

(* the rows are exhausted: processing time, final summary, return results *)
Finish ==
    /\ pc = "loop"
    /\ pos > Len(df)
    /\ Return("completed", results)
    /\ UNCHANGED <<given, df, pos, results, session_stats, now, sendTimes,
                   trace, interruptedAt>>

(* the for statement takes the next row *)
NextPos_Stuck == pos

NextPos == pos + 1

(* a row that fails the blank check: skipped, continue *)
SkipRow ==
    /\ pc = "loop"
    /\ pos <= Len(df)
    /\ IsBlankRow(Contact, Message)
    /\ results' = RecordSkipped
    /\ trace' = Append(trace, Ev("skipped", Row.index))
    /\ pos' = NextPos
    /\ UNCHANGED <<given, pc, status, report, df, session_stats, now,
                   sendTimes, interruptedAt>>

(* a row that passes it: contacts_processed += 1, search_contact is called *)
BeginRow ==
    /\ pc = "loop"
    /\ pos <= Len(df)
    /\ ~IsBlankRow(Contact, Message)
    /\ session_stats' = [session_stats EXCEPT !.contacts_processed = @ + 1]
    /\ trace' = Append(trace, Ev("search", Row.index))
    /\ pc' = "search_box"
    /\ UNCHANGED <<given, status, report, df, pos, results, now, sendTimes,
                   interruptedAt>>

----------------------------------------------------------------------------
(* search_contact *)

(* a step inside a method: only the clock, the trace and pc move *)
Inside(duration, events, to) ==
    /\ now' = now + duration
    /\ trace' = trace \o events
    /\ pc' = to
    /\ UNCHANGED <<given, status, report, df, pos, results, session_stats,
                   sendTimes, interruptedAt>>

(* wait for the search box, click, clear, type the contact, sleep *)
SearchBox(R) ==
    /\ pc = "search_box"
    /\ \E r \in R \cap {"ok", "timeout", "error"} :
         CASE r = "ok" -> Inside(search_delay, <<>>, "strategy1")
           [] r = "timeout" -> SearchFalse(page_load_timeout, <<>>)
           [] r = "error" -> SearchFalse(0, <<>>)

(* strategy 1: wait for the entry whose title is the contact, click it;
   only a TimeoutException leads on to strategy 2 *)
Strategy1(R) ==
    /\ pc = "strategy1"
    /\ \E r \in R \cap {"ok", "timeout", "error"} :
         CASE r = "ok" -> SearchTrue(0, <<Ev("exact", Row.index)>>)
           [] r = "timeout" ->
                Inside(page_load_timeout, <<Ev("no_exact", Row.index)>>,
                       "strategy2")
           [] r = "error" -> SearchFalse(0, <<Ev("exact_error", Row.index)>>)

(* strategy 2: wait for the first search result, click it, sleep(1) *)
Strategy2(R) ==
    /\ pc = "strategy2"
    /\ \E r \in R \cap {"ok", "timeout", "error"} :
         CASE r = "ok" ->
                Inside(verify_delay, <<Ev("first_result", Row.index)>>,
                       "verify")
           [] r = "timeout" ->
                SearchFalse(page_load_timeout, <<Ev("no_result", Row.index)>>)
           [] r = "error" -> SearchFalse(0, <<Ev("first_error", Row.index)>>)

(* what the wait for the message box found *)
Compose(r) == IF r = "ok" THEN "compose_present" ELSE "compose_absent"

(* return True only if that wait did not time out *)
Verified_Always(r) == TRUE

Verified(r) == r = "ok"

(* the message box must be present after the click on the first result *)
Verify(R) ==
    /\ pc = "verify"
    /\ \E r \in R \cap {"ok", "timeout"} :
         LET seen == <<Ev(Compose(r), Row.index)>> IN
         IF Verified(r)
         THEN SearchTrue(0, seen)
         ELSE SearchFalse(page_load_timeout, seen)

----------------------------------------------------------------------------
(* send_message *)

(* what the channel raised *)
Raised(r) ==
    CASE r = "timeout" -> "raised_timeout"
      [] r = "intercepted" -> "raised_intercepted"
      [] OTHER -> "raised_error"

(* the except clauses of send_message: which message is logged *)
Diagnostic_Generic(r) == "log_error"

Diagnostic(r) ==
    CASE r = "intercepted" -> "log_intercepted"
      [] r = "timeout" -> "log_box_not_found"
      [] OTHER -> "log_error"

(* only the generic clause counts messages_failed *)
CountsFailed(r) == r \notin {"intercepted", "timeout"}

Handled(r) == <<Ev(Raised(r), Row.index), Ev(Diagnostic(r), Row.index)>>

(* self.wait = WebDriverWait(self.driver, page_load_timeout) *)
WaitTime_Doubled(r) == IF r = "timeout" THEN 2 * page_load_timeout ELSE 0

WaitTime(r) == IF r = "timeout" THEN page_load_timeout ELSE 0

(* message_box.click(), .clear(), .send_keys(message), in this order *)
BoxSteps_ClearsLast(r) ==
    <<Ev("focused", r), Ev("typed", r), Ev("cleared", r)>>

BoxSteps(r) == <<Ev("focused", r), Ev("cleared", r), Ev("typed", r)>>

(* wait for the message box, click, clear, type the message, sleep *)
SendBox(R) ==
    /\ pc = "send_box"
    /\ \E r \in R \cap {"ok", "timeout", "intercepted", "error"} :
         LET called == <<Ev("dispatch", Row.index)>> IN
         IF r = "ok"
         THEN Inside(message_send_delay, called \o BoxSteps(Row.index),
                     "send_enter")
         ELSE SendFalse(WaitTime(r), CountsFailed(r), called \o Handled(r))

(* Keys.ENTER, sleep, messages_sent += 1, return True; successful += 1 *)
SendEnter(R) ==
    /\ pc = "send_enter"
    /\ \E r \in R \cap {"ok", "error"} :
         IF r = "ok"
         THEN /\ sendTimes' = Append(sendTimes, now)
              /\ now' = now + message_send_delay
              /\ session_stats' =
                   [session_stats EXCEPT !.messages_sent = @ + 1]
              /\ results' = [results EXCEPT !.successful = @ + 1]
              /\ trace' = Append(trace, Ev("sent", Row.index))
              /\ pc' = "after"
              /\ UNCHANGED <<given, status, report, df, pos, interruptedAt>>
         ELSE SendFalse(0, CountsFailed(r), Handled(r))

----------------------------------------------------------------------------
(* The end of the loop body and the interrupt *)

(* if index < len(df) - 1: time.sleep(random.uniform(lo, hi)) *)
NeedsDelay == Row.index < Len(df) - 1

AfterRow ==
    /\ pc = "after"
    /\ IF NeedsDelay
       THEN \E d \in {delay_range[1], delay_range[2]} :
               /\ now' = now + d
               /\ trace' = Append(trace, Ev("delay", Row.index))
       ELSE UNCHANGED <<now, trace>>
    /\ pos' = NextPos
    /\ pc' = "loop"
    /\ UNCHANGED <<given, status, report, df, results, session_stats,
                   sendTimes, interruptedAt>>

(* an exception other than FileNotFoundError and ValueError inside the try
   block (input or print failing): logged, then return results *)
AbortedResults_Fresh == [NewResults EXCEPT !.total = results.total]

AbortedResults == results

LoopError ==
    /\ \/ pc \in {"confirm", "after"}
       \/ pc = "loop" /\ pos <= Len(df) /\ ~IsBlankRow(Contact, Message)
    /\ Return("error", AbortedResults)
    /\ UNCHANGED <<given, df, pos, results, session_stats, now, sendTimes,
                   trace, interruptedAt>>

(* Ctrl+C: KeyboardInterrupt is no Exception, so it leaves send_bulk_messages
   through the finally clause, without a return, and reaches main's handler *)
Interrupt ==
    /\ pc \in Running
    /\ interruptedAt' = pc
    /\ pc' = "done"
    /\ status' = "interrupted"
    /\ UNCHANGED <<given, report, df, pos, results, session_stats, now,
                   sendTimes, trace>>

----------------------------------------------------------------------------
(* Specifications *)

Next ==
    \/ MainValidate
    \/ \E answer \in Answers : MainConfirm(answer)
    \/ Load
    \/ \E answer \in Answers : Confirm(answer)
    \/ Finish
    \/ SkipRow
    \/ BeginRow
    \/ SearchBox(ChannelResults)
    \/ Strategy1(ChannelResults)
    \/ Strategy2(ChannelResults)
    \/ Verify(ChannelResults)
    \/ SendBox(ChannelResults)
    \/ SendEnter(ChannelResults)
    \/ AfterRow
    \/ LoopError
    \/ Interrupt

Spec == Init /\ [][Next]_vars

(* The rate of sending: a file of rows without data followed by rows with
   data, a channel that answers every wait at once, and no interrupt *)

Responsive == {"ok"}

DroppedRow == [contact |-> EmptyText, message |-> MessageHi]
GoodRow == [contact |-> ContactA, message |-> MessageHi]

RateFiles ==
    {[i \in 1..(k + m) |-> IF i <= k THEN DroppedRow ELSE GoodRow] :
        k \in 0..MaxRateDropped, m \in 1..MaxRateRows}

InitRate ==
    /\ entry = "call"
    /\ source = "ok"
    /\ raw \in RateFiles
    /\ dry_run = FALSE
    /\ delay_range \in DelayRanges
    /\ InitRun

NextRate ==
    \/ Load
    \/ Confirm(Yes)
    \/ Finish
    \/ BeginRow
    \/ SearchBox(Responsive)
    \/ Strategy1(Responsive)
    \/ SendBox(Responsive)
    \/ SendEnter(Responsive)
    \/ AfterRow

SpecRate == InitRate /\ [][NextRate]_vars

(* validate_contacts_file called again and again on one file *)

Validate ==
    /\ pc = "idle"
    /\ entry = "validate"
    /\ Len(validations) < MaxCalls
    /\ validations' =
         Append(validations, validate_contacts_file(source, raw))
    /\ UNCHANGED <<inputs, confirm, pc, status, report, df, pos, results,
                   session_stats, now, sendTimes, trace, interruptedAt>>

InitValidate ==
    /\ entry = "validate"
    /\ source \in {"missing", "unsupported", "nocolumn", "ok"}
    /\ raw \in (IF source = "missing" THEN {<<>>} ELSE Files)
    /\ dry_run = FALSE
    /\ delay_range = DefaultDelayRange
    /\ InitRun

NextValidate == Validate

SpecValidate == InitValidate /\ [][NextValidate]_vars

(* The run of a call on a readable file when nobody presses Ctrl+C and
   neither input nor print raises.  One thread runs the code and every
   statement of it returns or raises: time.sleep after its argument, a wait
   at the latest after page_load_timeout, input once the user has answered;
   so a step that can be taken is taken. *)

InitLive ==
    /\ entry = "call"
    /\ source = "ok"
    /\ raw \in Files
    /\ dry_run = FALSE
    /\ delay_range = DefaultDelayRange
    /\ InitRun

NextLive ==
    \/ Load
    \/ \E answer \in Answers : Confirm(answer)
    \/ Finish
    \/ SkipRow
    \/ BeginRow
    \/ SearchBox(ChannelResults)
    \/ Strategy1(ChannelResults)
    \/ Strategy2(ChannelResults)
    \/ Verify(ChannelResults)
    \/ SendBox(ChannelResults)
    \/ SendEnter(ChannelResults)
    \/ AfterRow

SpecLive == InitLive /\ [][NextLive]_vars /\ WF_vars(NextLive)

----------------------------------------------------------------------------
(* What the claims speak of *)

SecondsPerMinute == 60
SecondsPerHour == 3600
SecondsPerDay == 86400

Sum(res) == res.successful + res.failed + res.skipped

RowLabels == {df[i].index : i \in 1..Len(df)}

Count(e, r) ==
    Cardinality({i \in DOMAIN trace : trace[i].row = r /\ trace[i].ev = e})

OutcomeEvents == {"skipped", "notfound", "sendfailed", "sent"}

Outcomes == {i \in DOMAIN trace : trace[i].ev \in OutcomeEvents}

OutcomesOf(r) ==
    Cardinality({i \in DOMAIN trace :
                    trace[i].row = r /\ trace[i].ev \in OutcomeEvents})

(* the sends of the trailing window of w seconds *)
SendsWithin(w) ==
    Cardinality({i \in DOMAIN sendTimes : now - sendTimes[i] < w})

(* a field of the file as the claims class it, from its text alone *)
Missing(field) == field \in NaStrings
Unusable(field) ==
    \/ field = <<>>
    \/ strip(field) = <<>>
    \/ lower(strip(field)) = Nan

RawLabels == {i - 1 : i \in DOMAIN raw}
RawRow(r) == raw[r + 1]
Surviving == {r \in RawLabels : ~Missing(RawRow(r).contact)
                                /\ ~Missing(RawRow(r).message)}
Blank == {r \in Surviving : Unusable(RawRow(r).contact)
                             \/ Unusable(RawRow(r).message)}
Invalid == {r \in RawLabels : Unusable(RawRow(r).contact)
                              \/ Unusable(RawRow(r).message)}

RecordBoundary == {"confirm", "loop", "after"}

----------------------------------------------------------------------------
(* C1: a run that iterates the whole data frame and returns normally
   reports total = successful + failed + skipped *)
C1_TotalAtCompletion ==
    status = "completed" =>
        /\ Len(report) = 1
        /\ report[1].total = Sum(report[1])

C1_Witness ==
    /\ status = "completed"
    /\ report[1].successful >= 1
    /\ report[1].skipped >= 1

(* C2 as stated: once total is set, total = successful + failed + skipped
   at every point of the run and in every returned report *)
C2_Original ==
    (pc # "idle" /\ source = "ok") => results.total = Sum(results)

(* C2 as amended: once total is set, successful + failed + skipped is the
   number of records that have reached an outcome so far and never exceeds
   total *)
C2_SumWithinTotal ==
    (pc # "idle" /\ source = "ok") =>
        /\ Sum(results) = Cardinality(Outcomes)
        /\ Sum(results) <= results.total
        /\ Len(report) = 1 => report[1] = results

C2_Witness ==
    /\ pc = "after"
    /\ results.total = 2
    /\ Sum(results) = 1

(* C3: in no trailing minute, hour or day are more messages sent than the
   ceiling of that window *)
C3_Claim ==
    /\ SendsWithin(SecondsPerMinute) <= max_messages_per_minute
    /\ SendsWithin(SecondsPerHour) <= max_messages_per_hour
    /\ SendsWithin(SecondsPerDay) <= max_messages_per_day

(* C4: an interrupt that arrives while the delivery loop runs stops it at a
   record boundary only, and the report with the partial totals is still
   returned *)
C4_Claim ==
    (status = "interrupted" /\ interruptedAt # "confirm") =>
        /\ interruptedAt \in RecordBoundary
        /\ Len(report) = 1

(* C5: every record has at most one outcome, is searched for and sent to at
   most once, and has exactly one outcome when the loop has completed *)
C5_OneOutcomePerRecord ==
    LET labels == RowLabels IN
    /\ \A i \in DOMAIN trace : trace[i].row \in labels
    /\ \A r \in labels :
        /\ OutcomesOf(r) <= 1
        /\ Count("search", r) <= 1
        /\ Count("dispatch", r) <= 1
        /\ Count("sent", r) <= 1
        /\ status = "completed" => OutcomesOf(r) = 1

C5_Witness ==
    /\ status = "completed"
    /\ Len(df) = 2
    /\ Count("sent", df[1].index) = 1
    /\ Count("dispatch", df[2].index) = 1

(* the contacts of the records that failed, in the order they failed *)
FailedEvent(e) == e.ev \in {"notfound", "sendfailed"}
FailedOfTrace ==
    LET f == SelectSeq(trace, FailedEvent)
    IN  [i \in 1..Len(f) |-> strip(RawRow(f[i].row).contact)]

(* C6: send_message is called for a record only directly after
   search_contact returned success for that record; a record whose
   resolution failed is never dispatched, counts as failed and has its
   contact in failed_contacts *)
C6_DispatchOnlyAfterResolve ==
    /\ \A i \in DOMAIN trace :
        /\ trace[i].ev = "dispatch" =>
              i > 1 /\ trace[i - 1] = Ev("found", trace[i].row)
        /\ trace[i].ev = "notfound" => Count("dispatch", trace[i].row) = 0
    /\ results.failed_contacts = FailedOfTrace
    /\ results.failed = Len(FailedOfTrace)

C6_Witness ==
    /\ \E i \in DOMAIN trace : trace[i].ev = "notfound"
    /\ \E i \in DOMAIN trace : trace[i].ev = "dispatch"

(* C7 as stated: a dry run calls neither search_contact nor send_message and
   leaves total, successful, failed, skipped and the session statistics at
   zero *)
C7_Original ==
    (dry_run /\ pc = "done") =>
        /\ trace = <<>>
        /\ report[1].total = 0
        /\ Sum(report[1]) = 0
        /\ session_stats = NewSessionStats

(* C7 as amended: a dry run returns at once, calls neither search_contact
   nor send_message, leaves successful, failed, skipped and the session
   statistics at zero, and reports as total the number of rows that have
   both cells (zero when the file could not be loaded) *)
C7_DryRunSendsNothing ==
    (dry_run /\ pc # "idle") =>
        /\ pc = "done"
        /\ trace = <<>>
        /\ sendTimes = <<>>
        /\ Len(report) = 1
        /\ report[1].successful = 0
        /\ report[1].failed = 0
        /\ report[1].skipped = 0
        /\ report[1].failed_contacts = <<>>
        /\ report[1].total =
              (IF source = "ok" THEN Cardinality(Surviving) ELSE 0)
        /\ session_stats = NewSessionStats

C7_Witness ==
    /\ status = "dry_run"
    /\ report[1].total = 2

(* C8 as stated: every row with an empty, blank or nan-like field counts as
   skipped and total counts the valid rows only; the scenario reports
   total = 1 and skipped = 2 *)
C8_Original ==
    status \in {"completed", "empty"} =>
        /\ report[1].skipped = Cardinality(Invalid)
        /\ report[1].total = Cardinality(RawLabels \ Invalid)
        /\ raw = Scenario => report[1].total = 1 /\ report[1].skipped = 2

(* C8 as amended: a row with a missing cell is counted neither in total nor
   in skipped; a row with both cells whose contact or message is blank or
   nan-like counts in total and, once the loop has completed, in skipped;
   the scenario reports total = 1 and skipped = 0 *)
C8_DroppedRowsAreNotCounted ==
    /\ status \in {"completed", "empty"} =>
        /\ report[1].total = Cardinality(Surviving)
        /\ report[1].skipped = Cardinality(Blank)
    /\ (status = "completed" /\ raw = Scenario) =>
        /\ report[1].total = 1
        /\ report[1].skipped = 0

C8_Witness ==
    /\ status = "completed"
    /\ raw = Scenario

(* C9: a row whose contact or message is empty, blank or nan-like is never
   searched for and never dispatched *)
C9_InvalidNeverReachesChannel ==
    LET invalid == Invalid IN
    \A i \in DOMAIN trace :
        trace[i].ev \in {"search", "found", "dispatch", "typed", "sent"} =>
            trace[i].row \notin invalid

C9_Witness ==
    /\ status = "completed"
    /\ Blank # {}
    /\ \E i \in DOMAIN trace : trace[i].ev = "dispatch"

(* C10: once the sends of the trailing minute have reached the ceiling, the
   next admission is denied: no further send happens while they stay there *)
C10_Claim ==
    [][SendsWithin(SecondsPerMinute) >= max_messages_per_minute
         => sendTimes' = sendTimes]_vars

----------------------------------------------------------------------------
InRecord == {"search_box", "strategy1", "strategy2", "verify", "send_box",
             "send_enter"}

(* C11: a record is worked on only after an admission, so never while a
   window is at its ceiling: the loop waits, or gives the run up *)
C11_Claim ==
    pc \in InRecord =>
        /\ SendsWithin(SecondsPerMinute) < max_messages_per_minute
        /\ SendsWithin(SecondsPerHour) < max_messages_per_hour
        /\ SendsWithin(SecondsPerDay) < max_messages_per_day

(* send_bulk_messages has been entered *)
CallMade == status \notin {"none", "sample_created", "rejected",
                           "main_declined"}

(* C12: a missing file, an unsupported extension or a missing column ends
   the call before any search or send, with a report of zeros *)
C12_LoadErrorsAbort ==
    (CallMade /\ source # "ok") =>
        /\ pc = "done"
        /\ status = "error"
        /\ trace = <<>>
        /\ sendTimes = <<>>
        /\ report = <<NewResults>>
        /\ session_stats = NewSessionStats

C12_Witness ==
    /\ status = "error"
    /\ source = "nocolumn"
    /\ raw # <<>>

Validation == validate_contacts_file(source, raw)

(* C13: no search and no send for a dataset without a valid row or with a
   validation issue *)
C13_NoDeliveryForInvalidDataset ==
    LET validation == Validation IN
    (\/ RawLabels \ Invalid = {}
     \/ validation.issues # <<>>
     \/ validation.valid_rows = 0) =>
        /\ \A i \in DOMAIN trace : trace[i].ev = "skipped"
        /\ sendTimes = <<>>

C13_Witness ==
    /\ entry = "main"
    /\ status = "rejected"
    /\ raw # <<>>

(* C14: the step that records a failure leaves the run in the loop, after
   the record; nothing but the delay follows for that record, every later
   event is of a later record, and a completed run has given every later
   record its outcome *)
C14_FailureNeitherRetriesNorStops ==
    /\ [](\A i \in DOMAIN trace :
            FailedEvent(trace[i]) =>
                /\ \A j \in DOMAIN trace :
                     j > i =>
                        \/ trace[j] = Ev("delay", trace[i].row)
                        \/ trace[j].row > trace[i].row
                /\ status = "completed" =>
                     \A r \in RowLabels :
                        r > trace[i].row => OutcomesOf(r) = 1)
    /\ [][results'.failed > results.failed =>
            /\ pc' = "after"
            /\ status' = status
            /\ pos' = pos
            /\ report' = report]_vars

C14_Witness ==
    /\ status = "completed"
    /\ Len(df) = 2
    /\ \E i \in DOMAIN trace :
         FailedEvent(trace[i]) /\ trace[i].row = df[1].index
    /\ Count("sent", df[2].index) = 1

PosOf(r) == CHOOSE k \in 1..Len(df) : df[k].index = r

(* C15: once the loop has moved past an attempted record that is not the
   last of the data frame, a delay was made after it; none is made after
   the last *)
C15_Claim ==
    \A i \in DOMAIN trace :
        trace[i].ev \in {"notfound", "sendfailed", "sent"} =>
            LET r == trace[i].row IN
            IF PosOf(r) = Len(df)
            THEN Count("delay", r) = 0
            ELSE pos > PosOf(r) => Count("delay", r) = 1

(* C16: the first result is clicked only when no exact match appeared; the
   search then succeeds if the message box is present and fails if that
   wait times out *)
C16_BestEffortNeedsComposeSurface ==
    \A i \in DOMAIN trace :
        LET r == trace[i].row IN
        /\ trace[i].ev = "first_result" =>
              /\ i > 1 /\ trace[i - 1] = Ev("no_exact", r)
              /\ i < Len(trace) =>
                    trace[i + 1].ev \in {"compose_present", "compose_absent"}
        /\ (trace[i].ev = "no_exact" /\ i < Len(trace)) =>
              trace[i + 1].ev \in {"first_result", "no_result", "first_error"}
        /\ trace[i].ev = "compose_present" =>
              i < Len(trace) /\ trace[i + 1] = Ev("found", r)
        /\ trace[i].ev = "compose_absent" =>
              i < Len(trace) /\ trace[i + 1] = Ev("notfound", r)
        /\ trace[i].ev = "found" =>
              i > 1 /\ trace[i - 1].ev \in {"exact", "compose_present"}

C16_Witness ==
    /\ \E i \in DOMAIN trace : trace[i].ev = "compose_absent"
    /\ \E i \in DOMAIN trace : trace[i].ev = "compose_present"

RaisedEvents == {"raised_timeout", "raised_intercepted", "raised_error"}

LogOf(e) ==
    CASE e = "raised_timeout" -> "log_box_not_found"
      [] e = "raised_intercepted" -> "log_intercepted"
      [] e = "raised_error" -> "log_error"

(* C17: whatever the channel raises inside send_message is logged with the
   message of its kind, the three messages differ, and the record is
   classified failed *)
C17_SendFailuresAreClassified ==
    /\ Cardinality({LogOf(e) : e \in RaisedEvents}) = 3
    /\ \A i \in DOMAIN trace :
         trace[i].ev \in RaisedEvents =>
            /\ i + 2 <= Len(trace)
            /\ trace[i + 1] = Ev(LogOf(trace[i].ev), trace[i].row)
            /\ trace[i + 2] = Ev("sendfailed", trace[i].row)
    /\ results.failed = Cardinality({i \in DOMAIN trace :
                                        FailedEvent(trace[i])})

C17_Witness ==
    /\ \E i \in DOMAIN trace : trace[i].ev = "raised_timeout"
    /\ \E i \in DOMAIN trace : trace[i].ev = "raised_intercepted"

(* C18: within one record the message is typed at most once, Enter is
   pressed at most once, and after a failure no step of send_message is
   taken again *)
C18_NoRetryInsideSend ==
    /\ Len(sendTimes) =
         Cardinality({i \in DOMAIN trace : trace[i].ev = "sent"})
    /\ \A r \in RowLabels :
         /\ Count("typed", r) <= 1
         /\ Count("sent", r) <= 1
         /\ Cardinality({i \in DOMAIN trace :
               trace[i].row = r /\ trace[i].ev \in RaisedEvents}) <= 1
    /\ \A i \in DOMAIN trace :
         trace[i].ev \in RaisedEvents =>
            \A j \in DOMAIN trace :
               (j > i /\ trace[j].row = trace[i].row) =>
                  trace[j].ev \notin {"dispatch", "typed", "sent"}

C18_Witness ==
    \E i \in DOMAIN trace :
        /\ trace[i].ev = "typed"
        /\ i < Len(trace)
        /\ trace[i + 1] = Ev("raised_error", trace[i].row)

CountEv(e) == Cardinality({i \in DOMAIN trace : trace[i].ev = e})

(* C19: the report of a run that an unexpected error ended carries the
   counts and the failed contacts gathered before the error *)
C19_AbortKeepsCounts ==
    (status = "error" /\ source = "ok") =>
        /\ Len(report) = 1
        /\ report[1].total = Cardinality(Surviving)
        /\ report[1].successful = CountEv("sent")
        /\ report[1].failed = CountEv("notfound") + CountEv("sendfailed")
        /\ report[1].skipped = CountEv("skipped")
        /\ report[1].failed_contacts = FailedOfTrace

C19_Witness ==
    /\ status = "error"
    /\ pos < Len(df)
    /\ report[1].failed = 1

IsPrefix(s, t) == Len(s) <= Len(t) /\ SubSeq(t, 1, Len(s)) = s

(* C20: no counter of the report or of the session ever decreases, and the
   list of failed contacts only grows *)
C20_CountersOnlyGrow ==
    [][/\ results'.successful >= results.successful
       /\ results'.failed >= results.failed
       /\ results'.skipped >= results.skipped
       /\ IsPrefix(results.failed_contacts, results'.failed_contacts)
       /\ session_stats'.messages_sent >= session_stats.messages_sent
       /\ session_stats'.messages_failed >= session_stats.messages_failed
       /\ session_stats'.contacts_processed
             >= session_stats.contacts_processed]_vars

C20_Witness ==
    /\ results.failed = 2
    /\ results.successful = 0 \/ results.skipped = 0
    /\ session_stats.messages_failed >= 1
    /\ session_stats.contacts_processed = 2

(* C21: the events of the run follow the order of the rows, and when a
   row is searched for, every row before it has its outcome already *)
C21_RowsInInputOrder ==
    /\ \A i \in 1..(Len(trace) - 1) : trace[i].row <= trace[i + 1].row
    /\ \A j \in DOMAIN trace :
         trace[j].ev = "search" =>
            \A k \in 1..Len(df) :
               df[k].index < trace[j].row =>
                  \E i \in 1..(j - 1) :
                     /\ trace[i].row = df[k].index
                     /\ trace[i].ev \in OutcomeEvents

C21_Witness ==
    /\ Len(df) = 2
    /\ Count("search", df[1].index) = 1
    /\ Count("search", df[2].index) = 1

SecondStrategy == {"first_result", "no_result", "first_error"}

(* C23: a search that ends not found after the exact match was tried and
   did not succeed has tried the first result before; and the first result
   is only tried when the exact match did not succeed *)
C23_Claim ==
    \A i \in DOMAIN trace :
        LET r == trace[i].row IN
        /\ trace[i].ev \in {"no_exact", "exact_error"} =>
              (i < Len(trace) => trace[i + 1].ev \in SecondStrategy)
        /\ trace[i].ev = "exact" =>
              \A j \in DOMAIN trace :
                 trace[j].row = r => trace[j].ev \notin SecondStrategy

(* C24: Enter is pressed only right after the box was waited for, clicked,
   cleared and typed into, in this order; a failure before the message was
   typed ends the call with nothing sent *)
C24_CommitAfterInsert ==
    /\ pc = "send_enter" =>
          /\ trace # <<>>
          /\ trace[Len(trace)] = Ev("typed", Row.index)
    /\ \A i \in DOMAIN trace :
         LET r == trace[i].row IN
         /\ trace[i].ev = "typed" =>
               /\ i > 3
               /\ trace[i - 1] = Ev("cleared", r)
               /\ trace[i - 2] = Ev("focused", r)
               /\ trace[i - 3] = Ev("dispatch", r)
         /\ trace[i].ev = "sent" => i > 1 /\ trace[i - 1] = Ev("typed", r)
         /\ (trace[i].ev \in RaisedEvents /\ trace[i - 1].ev = "dispatch") =>
               /\ Count("typed", r) = 0
               /\ Count("sent", r) = 0

C24_Witness ==
    /\ CountEv("sent") = 1
    /\ \E i \in DOMAIN trace :
         /\ trace[i].ev \in RaisedEvents
         /\ trace[i - 1].ev = "dispatch"

(* the longest a record can take: the search box, the exact match timing
   out, the first result, then one more wait timing out, then the delay *)
MaxRecordTime ==
    search_delay + page_load_timeout + verify_delay + page_load_timeout
    + delay_range[2]

(* C25: once the call is in its loop it ends, completed, with an outcome
   for every row and the report returned; and the time it takes stays
   within the sum of the longest waits of its rows *)
C25_LoopTerminates ==
    /\ (pc = "loop") ~>
          (/\ pc = "done"
           /\ status = "completed"
           /\ report = <<results>>
           /\ \A r \in RowLabels : OutcomesOf(r) = 1)
    /\ [](now <= Len(df) * MaxRecordTime)

C25_Witness ==
    /\ status = "completed"
    /\ Len(df) = 2
    /\ now > page_load_timeout
    /\ results.failed = 1
    /\ results.successful = 1

(* C26: outside a dry run nothing happens to any row unless the answer,
   lower-cased and stripped, is yes; any other answer returns the report
   with no outcome counted and the browser untouched *)
C26_OnlyYesDelivers ==
    (CallMade /\ ~dry_run) =>
        /\ (trace # <<>> \/ sendTimes # <<>> \/ pc \in Running \ {"confirm"})
              => confirm = Yes
        /\ confirm \notin {Unasked, Yes} =>
              /\ pc = "done"
              /\ status = "declined"
              /\ report = <<[NewResults EXCEPT !.total = Len(df)]>>
              /\ trace = <<>>
              /\ sendTimes = <<>>
              /\ session_stats = NewSessionStats

C26_Witness ==
    /\ status = "declined"
    /\ confirm = <<"y">>

(* C27: between two records, every record attempted so far is counted as
   sent or as failed in the session statistics *)
C27_Claim ==
    pc \in {"loop", "after", "done"} =>
        session_stats.contacts_processed =
            session_stats.messages_sent + session_stats.messages_failed

(* C28: a completed run has attempted as many records as validation
   reports valid rows *)
C28_Claim ==
    status = "completed" =>
        Validation.valid_rows = results.total - results.skipped

====
